---- MODULE Spec2Model ----
(***************************************************************************)
(* A model of the parking simulator: models.ParkingLot (the pool with its  *)
(* lock p.mu, the gate semaphore, the space semaphore, the admitted map    *)
(* and the pool's waiting queue), models.Vehicle (its state field) and     *)
(* services.Simulation (generation loop, queue-drain loop, per-vehicle     *)
(* tasks, Start/Stop).                                                     *)
(*                                                                         *)
(* Every goroutine is a task with a program counter.  A step of a task is  *)
(* the code between two points where the goroutine can block or where      *)
(* another goroutine can observe it: acquiring p.mu, acquiring the gate,   *)
(* a select on the context, a timer.                                       *)
(*                                                                         *)
(* Two specifications share the pool's actions:                            *)
(*   Spec      a run of services.Simulation driving the pool;              *)
(*   PoolSpec  client goroutines calling ParkingLot.TryEnter and           *)
(*             ParkingLot.Exit directly, in any order.                     *)
(* A third one, PoissonSpec, has goroutines calling the methods of         *)
(* utils.PoissonGenerator.                                                 *)
(***************************************************************************)
EXTENDS Integers, Sequences, FiniteSets, TLC

(***************************************************************************)
(* Bounds of the model.                                                    *)
(***************************************************************************)
\* config.MaxVehicles: how many vehicles the generation loop creates
NumVehicles == 3
\* the largest config.ParkingCapacity a pool is constructed with
MaxCapacity == 2
\* MAX_QUEUE_SIZE, the bound of the driver's waiting queue
MaxQueueSize == 1
\* client goroutines of PoolSpec
NumClients == 2
\* calls of TryEnter/Exit the clients of PoolSpec make in total
MaxCalls == 5
\* calls of Start() on one Simulation
MaxStarts == 2
\* goroutines calling the PoissonGenerator in PoissonSpec
NumCallers == 2
\* the rates lambda (events per second) passed to SetLambda are in
\* -1..MaxLambda
MaxLambda == 2
\* the bounds passed to SetTimeConstraints are in -MaxTime..MaxTime
MaxTime == 3
\* the largest value of -ln(1-u) drawn in NextInterval
MaxRaw == 7
\* the largest window passed to GenerateEventTimes and NextEvents, in
\* Duration ticks
MaxWindow == 2
\* The floats p and L of NextEvents are counted in units of 1/Precision:
\* 1.0 is Precision, a positive value below 1/Precision underflows to 0
Precision == 4
\* iterations of the loop of NextEvents that the model follows
MaxK == 6
\* Float values of time are counted in units of 1/SubNs of a Duration tick,
\* so that a float need not be a whole number of ticks
SubNs == 2

(***************************************************************************)
(* VehicleState (vehicle.go, iota).                                        *)
(***************************************************************************)
Waiting == 0
Entering == 1
Parked == 2
Exiting == 3

Vehicles == 1..NumVehicles

(***************************************************************************)
(* Tasks (goroutines).  PV(v) is the goroutine running                     *)
(* Simulation.processVehicle(v); RT(k) is a goroutine started by           *)
(* `go p.TryEnter(nextVehicle)` in Exit; CL(c) is a client of PoolSpec.    *)
(***************************************************************************)
PV(v) == <<"pv", v>>
RT(k) == <<"rt", k>>
CL(c) == <<"cl", c>>
NoTask == <<"none", 0>>

\* one retry goroutine can be started by every effective Exit
RetrySlots == 1..(NumVehicles + MaxCalls)
Clients == 1..NumClients

PVTasks == {PV(v) : v \in Vehicles}
RTTasks == {RT(k) : k \in RetrySlots}
CLTasks == {CL(c) : c \in Clients}
Tasks == PVTasks \cup RTTasks \cup CLTasks

VARIABLES
    \* ---- models.ParkingLot
    Capacity,        \* p.Capacity, fixed by NewParkingLot
    mu,              \* holder of p.mu, or NoTask
    gateSem,         \* holder of the one permit of p.gateSem, or NoTask
    spaceSem,        \* permits currently acquired from p.spaceSem
    vehicles,        \* keys of the map p.vehicles
    waitingQueue,    \* p.waitingQueue, a sequence of vehicle ids
    occupiedSpaces,  \* p.occupiedSpaces
    \* ---- models.Vehicle
    state,           \* state[v]: Vehicle.state
    \* ---- services.Simulation
    started,         \* how often Start() has been called
    cancelled,       \* s.ctx is done
    wg,              \* counter of s.wg
    queue,           \* s.queue
    genpc,           \* position of runSimulation
    vehicleCount,    \* local vehicleCount of runSimulation
    drpc,            \* position of processQueue
    drv,             \* vehicle popped by tryProcessNextInQueue, not yet spawned
    stoppc,          \* position of Stop()
    \* ---- goroutines inside TryEnter / Exit / processVehicle
    frame,           \* frame[t] = [pc, v]
    \* ---- observations
    nIn,             \* nIn[v]: admissions committed for v (increments of occupiedSpaces)
    nOut,            \* nOut[v]: departures committed for v (decrements of occupiedSpaces)
    nRel,            \* spaceSem.Release calls made by Exit
    nIgnored,        \* nIgnored[v]: Exit(v) calls that returned at line 80 after v had departed
    lastNote,        \* the last call of p.UpdateUI
    qNotes,          \* s.onQueueUpdate: n calls so far, the last one with len
    balked,          \* vehicles dropped by addToQueue on a full queue
    calls,           \* PoolSpec: calls started by the clients
    scn,             \* PoolSpec: progress of the capacity-2 scenario
    phase,           \* "fill", "drain" once a client called Exit, "late" once a
                     \* client's TryEnter ran after that
    queuedLog,       \* vehicles appended to p.waitingQueue, in order
    admitLog,        \* vehicles admitted by a retry of Exit, in order
    \* ---- utils.PoissonGenerator and the goroutines calling it
    pg,              \* [lambda, minTime, maxTime, mu]
    caller           \* caller[c]: position and locals of a calling goroutine

poolVars == <<mu, gateSem, spaceSem, vehicles, waitingQueue, occupiedSpaces, state>>
simVars == <<started, cancelled, wg, queue, genpc, vehicleCount, drpc, drv, stoppc>>
obsVars == <<nIn, nOut, nRel, nIgnored, lastNote, qNotes, balked>>
harnessVars == <<calls, scn, phase>>
fifoVars == <<queuedLog, admitLog>>
pgVars == <<pg, caller>>
vars == <<Capacity, mu, gateSem, spaceSem, vehicles, waitingQueue, occupiedSpaces, state,
          started, cancelled, wg, queue, genpc, vehicleCount, drpc, drv, stoppc,
          frame, nIn, nOut, nRel, nIgnored, lastNote, qNotes, balked, calls, scn,
          phase, queuedLog, admitLog, pg, caller>>

Range(s) == {s[i] : i \in 1..Len(s)}
Count(s, x) == Cardinality({i \in 1..Len(s) : s[i] = x})

(***************************************************************************)
(* NewParkingLot, NewSimulationWithConfig: the state after construction.   *)
(***************************************************************************)
\* time.Second, scaled: a Duration of the model counts ticks of 1/10 s
Second == 10

\* DefaultPoissonConfig: Lambda 2.0, MinTime 0.1 s, MaxTime 10.0 s
DefaultPoissonConfig ==
    [Lambda |-> 2, MinTime |-> (Second * SubNs) \div 10, MaxTime |-> 10 * Second * SubNs]

\* NewPoissonGenerator: the fields are copied as given; pg.mu is unlocked (0)
NewPoissonGenerator(config) ==
    [lambda |-> config.Lambda, minTime |-> config.MinTime,
     maxTime |-> config.MaxTime, mu |-> 0]

PgCallers == 1..NumCallers

\* a generator nobody is calling
IdleCallers == [c \in PgCallers |-> [pc |-> "idle", op |-> "none", window |-> 0,
                                     currentTime |-> 0, times |-> <<>>,
                                     ret |-> 0, retTimes |-> <<>>,
                                     k |-> 0, p |-> 0, L |-> 0]]

Init ==
    /\ Capacity \in 1..MaxCapacity
    /\ mu = NoTask
    /\ gateSem = NoTask
    /\ spaceSem = 0
    /\ vehicles = {}
    /\ waitingQueue = <<>>
    /\ occupiedSpaces = 0
    /\ state = [v \in Vehicles |-> Waiting]
    /\ started = 0
    /\ cancelled = FALSE
    /\ wg = 0
    /\ queue = <<>>
    /\ genpc = "idle"
    /\ vehicleCount = 0
    /\ drpc = "idle"
    /\ drv = 0
    /\ stoppc = "idle"
    /\ frame = [t \in Tasks |-> [pc |-> "idle", v |-> 0]]
    /\ nIn = [v \in Vehicles |-> 0]
    /\ nOut = [v \in Vehicles |-> 0]
    /\ nRel = 0
    /\ nIgnored = [v \in Vehicles |-> 0]
    /\ lastNote = [kind |-> "none", v |-> 0, spaces |-> Capacity, gate |-> FALSE]
    /\ qNotes = [n |-> 0, len |-> 0]
    /\ balked = {}
    /\ calls = 0
    /\ scn = 0
    /\ phase = "fill"
    /\ queuedLog = <<>>
    /\ admitLog = <<>>
    /\ pg = NewPoissonGenerator(DefaultPoissonConfig)
    /\ caller = IdleCallers

(***************************************************************************)
(* ParkingLot.GetAvailableSpaces.  The driver calls it without p.mu; the   *)
(* read of the aligned 64-bit field yields the value before or after a     *)
(* concurrent update, which the interleaving of steps covers.              *)
(***************************************************************************)
\* GetAvailableSpaces mutated: the occupancy is not subtracted
GetAvailableSpacesStale == Capacity

GetAvailableSpaces == Capacity - occupiedSpaces

\* TryEnter line 40: no space left
LotFull == occupiedSpaces >= Capacity

\* TryEnter line 47: p.spaceSem.TryAcquire(1) succeeds
TryAcquire == spaceSem < Capacity

\* TryEnter lines 40-50 mutated: the admission test is missing
NoSpaceNever == FALSE

\* TryEnter lines 40-50: either rejection path (both append to the waiting
\* queue and return false)
NoSpace == LotFull \/ ~TryAcquire

\* gateSem.Acquire mutated: the gate is entered without waiting for it
GateFreeAlways == TRUE

\* TryEnter line 53, Exit line 84: gateSem.Acquire(p.ctx, 1) can proceed.
\* p.ctx is context.Background() (NewParkingLot, line 31): it is never done,
\* so Acquire never returns an error and waits until the gate is free.
GateFree == gateSem = NoTask

\* TryEnter lines 42, 48 mutated: the vehicle is put at the front
EnqueueFront(q, v) == <<v>> \o q

\* TryEnter lines 42, 48: p.waitingQueue = append(p.waitingQueue, vehicle)
Enqueue(q, v) == Append(q, v)

\* TryEnter line 61 mutated: the vehicle is not recorded
InsertNothing(m, v) == m

\* TryEnter line 61: p.vehicles[vehicle.ID] = vehicle
Insert(m, v) == m \cup {v}

\* Exit line 104 mutated: the last entry is taken
NextVehicleLast(q) == q[Len(q)]

\* Exit line 104: nextVehicle := p.waitingQueue[0]
NextVehicle(q) == q[1]

\* Exit line 100 mutated: the permit is kept
ReleaseNothing(n) == n

\* Exit line 100: p.spaceSem.Release(1)
Release(n) == n - 1

\* Exit line 91 mutated: the map entry is kept
DeleteNothing(m, v) == m

\* Exit line 91: delete(p.vehicles, vehicle.ID)
Delete(m, v) == m \ {v}

\* Exit line 79 mutated: the membership test always succeeds
InLotAlways(v) == TRUE

\* Exit line 79: _, exists := p.vehicles[vehicle.ID]
InLot(v) == v \in vehicles

(***************************************************************************)
(* Where a task continues when its call returns.                           *)
(***************************************************************************)
AfterTryEnter(t, entered) ==
    IF t[1] = "pv" THEN (IF entered THEN "park" ELSE "pv_queue") ELSE "idle"

AfterExit(t) ==
    IF t[1] = "pv" THEN "pv_done" ELSE "idle"

SetPc(t, p) == [frame EXCEPT ![t].pc = p]

(***************************************************************************)
(* ParkingLot.TryEnter                                                     *)
(***************************************************************************)
\* lines 36-50: lock p.mu, reject to the waiting queue or take a permit
TE_Lock(t) ==
    /\ frame[t].pc = "te_lock"
    /\ mu = NoTask
    /\ IF NoSpace
         THEN /\ waitingQueue' = Enqueue(waitingQueue, frame[t].v)
              /\ queuedLog' = Append(queuedLog, frame[t].v)
              /\ frame' = SetPc(t, AfterTryEnter(t, FALSE))
              /\ UNCHANGED <<mu, spaceSem>>
         ELSE /\ spaceSem' = spaceSem + 1
              /\ mu' = t
              /\ frame' = SetPc(t, "te_gate")
              /\ UNCHANGED <<waitingQueue, queuedLog>>
    /\ phase' = IF t[1] = "cl" /\ phase = "drain" THEN "late" ELSE phase
    /\ UNCHANGED <<gateSem, vehicles, occupiedSpaces, state>>
    /\ UNCHANGED <<simVars, obsVars, calls, scn, Capacity, admitLog, pgVars>>

\* lines 53-65: acquire the gate (context.Background: blocks until free),
\* record the vehicle, notify
TE_Gate(t) ==
    /\ frame[t].pc = "te_gate"
    /\ GateFree
    /\ gateSem' = t
    /\ state' = [state EXCEPT ![frame[t].v] = Entering]
    /\ vehicles' = Insert(vehicles, frame[t].v)
    /\ occupiedSpaces' = occupiedSpaces + 1
    /\ nIn' = [nIn EXCEPT ![frame[t].v] = @ + 1]
    /\ lastNote' = [kind |-> "in", v |-> frame[t].v,
                    spaces |-> Capacity - occupiedSpaces', gate |-> TRUE]
    /\ admitLog' = IF t[1] = "rt" THEN Append(admitLog, frame[t].v) ELSE admitLog
    /\ frame' = SetPc(t, "te_release")
    /\ UNCHANGED <<mu, spaceSem, waitingQueue>>
    /\ UNCHANGED <<simVars, nOut, nRel, nIgnored, qNotes, balked, harnessVars, Capacity, queuedLog, pgVars>>

\* lines 68-71: release the gate, Parked, return true (deferred Unlock)
TE_Release(t) ==
    /\ frame[t].pc = "te_release"
    /\ gateSem' = NoTask
    /\ state' = [state EXCEPT ![frame[t].v] = Parked]
    /\ mu' = NoTask
    /\ frame' = SetPc(t, AfterTryEnter(t, TRUE))
    /\ UNCHANGED <<spaceSem, vehicles, waitingQueue, occupiedSpaces>>
    /\ UNCHANGED <<simVars, obsVars, harnessVars, Capacity, fifoVars, pgVars>>

(***************************************************************************)
(* ParkingLot.Exit                                                         *)
(***************************************************************************)
\* lines 75-81: lock p.mu, return if the vehicle is not in the map
EX_Lock(t) ==
    /\ frame[t].pc = "ex_lock"
    /\ mu = NoTask
    /\ IF InLot(frame[t].v)
         THEN /\ mu' = t
              /\ frame' = SetPc(t, "ex_gate")
              /\ UNCHANGED nIgnored
         ELSE /\ frame' = SetPc(t, AfterExit(t))
              /\ nIgnored' = [nIgnored EXCEPT ![frame[t].v] =
                                  IF nOut[frame[t].v] > 0 THEN @ + 1 ELSE @]
              /\ UNCHANGED mu
    /\ UNCHANGED <<gateSem, spaceSem, vehicles, waitingQueue, occupiedSpaces, state>>
    /\ UNCHANGED <<simVars, nIn, nOut, nRel, lastNote, qNotes, balked, harnessVars, Capacity, fifoVars, pgVars>>

\* lines 84-100: acquire the gate, remove the vehicle, notify, release the permit
EX_Gate(t) ==
    /\ frame[t].pc = "ex_gate"
    /\ GateFree
    /\ gateSem' = t
    /\ state' = [state EXCEPT ![frame[t].v] = Exiting]
    /\ vehicles' = Delete(vehicles, frame[t].v)
    /\ occupiedSpaces' = occupiedSpaces - 1
    /\ nOut' = [nOut EXCEPT ![frame[t].v] = @ + 1]
    /\ lastNote' = [kind |-> "out", v |-> frame[t].v,
                    spaces |-> Capacity - occupiedSpaces', gate |-> TRUE]
    /\ spaceSem' = Release(spaceSem)
    /\ nRel' = nRel + 1
    /\ frame' = SetPc(t, "ex_queue")
    /\ UNCHANGED <<mu, waitingQueue>>
    /\ UNCHANGED <<simVars, nIn, nIgnored, qNotes, balked, harnessVars, Capacity, fifoVars, pgVars>>

\* the goroutine slot the next `go p.TryEnter` runs in
FreeSlot == CHOOSE k \in RetrySlots :
                /\ frame[RT(k)].pc = "idle"
                /\ \A j \in RetrySlots : j < k => frame[RT(j)].pc # "idle"

\* lines 103-109 and 114-115: pop the head of the waiting queue, unlock p.mu
\* and start the retry; with an empty queue release the gate and return
EX_Queue(t) ==
    /\ frame[t].pc = "ex_queue"
    /\ IF Len(waitingQueue) > 0
         THEN /\ \E k \in RetrySlots : frame[RT(k)].pc = "idle"
              /\ waitingQueue' = Tail(waitingQueue)
              /\ mu' = NoTask
              /\ frame' = [frame EXCEPT ![t].pc = "ex_relock",
                                        ![RT(FreeSlot)] = [pc |-> "te_lock",
                                                           v |-> NextVehicle(waitingQueue)]]
              /\ UNCHANGED gateSem
         ELSE /\ gateSem' = NoTask
              /\ mu' = NoTask
              /\ frame' = SetPc(t, AfterExit(t))
              /\ UNCHANGED waitingQueue
    /\ UNCHANGED <<spaceSem, vehicles, occupiedSpaces, state>>
    /\ UNCHANGED <<simVars, obsVars, harnessVars, Capacity, fifoVars, pgVars>>

\* lines 110-115: lock p.mu again, release the gate, return (deferred Unlock)
EX_Relock(t) ==
    /\ frame[t].pc = "ex_relock"
    /\ mu = NoTask
    /\ gateSem' = NoTask
    /\ frame' = SetPc(t, AfterExit(t))
    /\ UNCHANGED <<mu, spaceSem, vehicles, waitingQueue, occupiedSpaces, state>>
    /\ UNCHANGED <<simVars, obsVars, harnessVars, Capacity, fifoVars, pgVars>>

TryEnterLock == \E t \in Tasks : TE_Lock(t)
TryEnterGate == \E t \in Tasks : TE_Gate(t)
TryEnterRelease == \E t \in Tasks : TE_Release(t)
ExitLock == \E t \in Tasks : EX_Lock(t)
ExitGate == \E t \in Tasks : EX_Gate(t)
ExitQueue == \E t \in Tasks : EX_Queue(t)
ExitRelock == \E t \in Tasks : EX_Relock(t)

(***************************************************************************)
(* services.Simulation                                                     *)
(***************************************************************************)
\* addToQueue, lines 156-158 mutated: the length test is missing
QueueFullNever == FALSE

\* addToQueue, lines 156-158: the queue is full, the vehicle is dropped
QueueFull == Len(queue) >= MaxQueueSize

\* addToQueue, lines 152-176 (s.queueMutex is held for the whole body)
AddToQueue(v) ==
    IF QueueFull
      THEN /\ balked' = balked \cup {v}
           /\ UNCHANGED <<queue, qNotes>>
      ELSE /\ queue' = Append(queue, v)
           /\ qNotes' = [n |-> qNotes.n + 1, len |-> Len(queue')]
           /\ UNCHANGED balked

\* Start, lines 83-87: wg.Add(1); go runSimulation(); go processQueue().
\* Start may be called again on the same Simulation (its context stays
\* cancelled); the model follows a later call once Stop has returned and the
\* loops of the earlier call have returned.  The new runSimulation has its own
\* vehicleCount := 0 (line 125).
Start ==
    /\ started < MaxStarts
    /\ started > 0 => stoppc = "returned" /\ genpc = "done" /\ drpc = "done"
    /\ started' = started + 1
    /\ wg' = wg + 1
    /\ genpc' = "loop"
    /\ vehicleCount' = 0
    /\ drpc' = "select"
    /\ UNCHANGED <<cancelled, queue, drv, stoppc>>
    /\ UNCHANGED <<poolVars, frame, obsVars, harnessVars, Capacity, fifoVars, pgVars>>

\* Stop, line 90: s.cancel(), then Stop blocks in s.wg.Wait()
Stop ==
    /\ started > 0
    /\ stoppc = "idle"
    /\ cancelled' = TRUE
    /\ stoppc' = "wait"
    /\ UNCHANGED <<started, wg, queue, genpc, vehicleCount, drpc, drv>>
    /\ UNCHANGED <<poolVars, frame, obsVars, harnessVars, Capacity, fifoVars, pgVars>>

\* Stop, line 91: s.wg.Wait() returns when the counter is zero
StopReturn ==
    /\ stoppc = "wait"
    /\ wg = 0
    /\ stoppc' = "returned"
    /\ UNCHANGED <<started, cancelled, wg, queue, genpc, vehicleCount, drpc, drv>>
    /\ UNCHANGED <<poolVars, frame, obsVars, harnessVars, Capacity, fifoVars, pgVars>>

\* runSimulation, lines 126-141: the context is not done, create a vehicle and
\* either start its task or queue it
GenCreate ==
    /\ genpc = "loop"
    /\ vehicleCount < NumVehicles
    /\ ~cancelled
    /\ vehicleCount' = vehicleCount + 1
    /\ genpc' = "wait"
    /\ IF GetAvailableSpaces > 0
         THEN /\ wg' = wg + 1
              /\ frame' = [frame EXCEPT ![PV(vehicleCount')] =
                                           [pc |-> "te_lock", v |-> vehicleCount']]
              /\ UNCHANGED <<queue, qNotes, balked>>
         ELSE /\ AddToQueue(vehicleCount')
              /\ UNCHANGED <<wg, frame>>
    /\ UNCHANGED <<started, cancelled, drpc, drv, stoppc>>
    /\ UNCHANGED <<poolVars, nIn, nOut, nRel, nIgnored, lastNote, harnessVars, Capacity, fifoVars, pgVars>>

\* runSimulation, lines 142-147: time.After(interval) fires
GenTimer ==
    /\ genpc = "wait"
    /\ genpc' = "loop"
    /\ UNCHANGED <<started, cancelled, wg, queue, vehicleCount, drpc, drv, stoppc>>
    /\ UNCHANGED <<poolVars, frame, obsVars, harnessVars, Capacity, fifoVars, pgVars>>

\* runSimulation, lines 126-129 and 143-144 (ctx.Done) and the end of the
\* loop at line 126; deferred wg.Done
GenReturn ==
    /\ \/ genpc = "loop" /\ (cancelled \/ vehicleCount >= NumVehicles)
       \/ genpc = "wait" /\ cancelled
    /\ genpc' = "done"
    /\ wg' = wg - 1
    /\ UNCHANGED <<started, cancelled, queue, vehicleCount, drpc, drv, stoppc>>
    /\ UNCHANGED <<poolVars, frame, obsVars, harnessVars, Capacity, fifoVars, pgVars>>

\* processQueue, lines 102-103 and tryProcessNextInQueue, lines 109-113: a
\* tick of the ticker finds a queued vehicle and available spaces; the head
\* is popped.  (A tick that finds nothing changes nothing.)  When the context
\* is done and a tick is pending, select takes either case.
DrainTick ==
    /\ drpc = "select"
    /\ Len(queue) > 0
    /\ GetAvailableSpaces > 0
    /\ drv' = Head(queue)
    /\ queue' = Tail(queue)
    /\ drpc' = "spawn"
    /\ UNCHANGED <<started, cancelled, wg, genpc, vehicleCount, stoppc>>
    /\ UNCHANGED <<poolVars, frame, obsVars, harnessVars, Capacity, fifoVars, pgVars>>

\* tryProcessNextInQueue, lines 115-116: s.wg.Add(1); go s.processVehicle(vehicle)
DrainSpawn ==
    /\ drpc = "spawn"
    /\ frame[PV(drv)].pc = "idle"
    /\ wg' = wg + 1
    /\ frame' = [frame EXCEPT ![PV(drv)] = [pc |-> "te_lock", v |-> drv]]
    /\ drpc' = "select"
    /\ drv' = 0
    /\ UNCHANGED <<started, cancelled, queue, genpc, vehicleCount, stoppc>>
    /\ UNCHANGED <<poolVars, obsVars, harnessVars, Capacity, fifoVars, pgVars>>

\* processQueue, lines 100-101: the context is done
DrainReturn ==
    /\ drpc = "select"
    /\ cancelled
    /\ drpc' = "done"
    /\ UNCHANGED <<started, cancelled, wg, queue, genpc, vehicleCount, drv, stoppc>>
    /\ UNCHANGED <<poolVars, frame, obsVars, harnessVars, Capacity, fifoVars, pgVars>>

\* processVehicle, lines 184-190: TryEnter returned false; addToQueue, return.
\* The deferred wg.Done is taken in the same step: between the two the task
\* touches no shared state.
PVQueue ==
    \E v \in Vehicles :
        /\ frame[PV(v)].pc = "pv_queue"
        /\ AddToQueue(v)
        /\ wg' = wg - 1
        /\ frame' = SetPc(PV(v), "idle")
        /\ UNCHANGED <<started, cancelled, genpc, vehicleCount, drpc, drv, stoppc>>
        /\ UNCHANGED <<poolVars, nIn, nOut, nRel, nIgnored, lastNote, harnessVars, Capacity, fifoVars, pgVars>>

\* processVehicle, lines 194-203: the timer fires or the context is done;
\* both branches call s.parking.Exit(vehicle)
PVPark ==
    \E v \in Vehicles :
        /\ frame[PV(v)].pc = "park"
        /\ frame' = SetPc(PV(v), "ex_lock")
        /\ UNCHANGED <<poolVars, simVars, obsVars, harnessVars, Capacity, fifoVars, pgVars>>

\* processVehicle, line 179: deferred wg.Done after Exit returned
PVDone ==
    \E v \in Vehicles :
        /\ frame[PV(v)].pc = "pv_done"
        /\ wg' = wg - 1
        /\ frame' = SetPc(PV(v), "idle")
        /\ UNCHANGED <<started, cancelled, queue, genpc, vehicleCount, drpc, drv, stoppc>>
        /\ UNCHANGED <<poolVars, obsVars, harnessVars, Capacity, fifoVars, pgVars>>

Next ==
    \/ Start
    \/ Stop
    \/ StopReturn
    \/ GenCreate
    \/ GenTimer
    \/ GenReturn
    \/ DrainTick
    \/ DrainSpawn
    \/ DrainReturn
    \/ PVQueue
    \/ PVPark
    \/ PVDone
    \/ TryEnterLock
    \/ TryEnterGate
    \/ TryEnterRelease
    \/ ExitLock
    \/ ExitGate
    \/ ExitQueue
    \/ ExitRelock

Spec == Init /\ [][Next]_vars

(***************************************************************************)
(* Clients of the pool: goroutines that call p.TryEnter(v) and p.Exit(v)   *)
(* for any vehicle, concurrently, MaxCalls calls in total.                 *)
(***************************************************************************)
\* the scenario of the capacity-2 test: admit 1, 2, 3, then exit 1
Scenario == << <<"te_lock", 1>>, <<"te_lock", 2>>, <<"te_lock", 3>>, <<"ex_lock", 1>> >>

ClientsIdle == \A c \in Clients : frame[CL(c)].pc = "idle"

\* scn = k: exactly the first k calls of Scenario have been made, each after
\* the previous one returned; scn = -1: the calls made are not the scenario
ScnAfter(op, v) ==
    IF /\ Capacity = 2
       /\ scn >= 0 /\ scn < Len(Scenario) /\ ClientsIdle /\ Scenario[scn + 1] = <<op, v>>
      THEN scn + 1
      ELSE -1

\* the clients first fill the pool and its queue; draining begins with the
\* first call of Exit
PhaseAfter(op) ==
    IF op = "ex_lock" /\ phase = "fill" THEN "drain" ELSE phase

ClientCall ==
    \E c \in Clients, op \in {"te_lock", "ex_lock"}, v \in Vehicles :
        /\ frame[CL(c)].pc = "idle"
        /\ calls < MaxCalls
        /\ calls' = calls + 1
        /\ scn' = ScnAfter(op, v)
        /\ phase' = PhaseAfter(op)
        /\ frame' = [frame EXCEPT ![CL(c)] = [pc |-> op, v |-> v]]
        /\ UNCHANGED <<poolVars, simVars, obsVars, Capacity, fifoVars, pgVars>>

PoolNext ==
    \/ ClientCall
    \/ TryEnterLock
    \/ TryEnterGate
    \/ TryEnterRelease
    \/ ExitLock
    \/ ExitGate
    \/ ExitQueue
    \/ ExitRelock

PoolSpec == Init /\ [][PoolNext]_vars

(***************************************************************************)
(* utils.PoissonGenerator (poisson.go).  minTime, maxTime and x are floats *)
(* of seconds, counted here in 1/SubNs of a Duration tick.                 *)
(***************************************************************************)
nonPgVars == <<poolVars, simVars, obsVars, harnessVars, Capacity, fifoVars, frame>>

Lambdas == (0 - 1)..MaxLambda
Times == (0 - MaxTime)..MaxTime
Raws == 0..MaxRaw
Windows == 0..MaxWindow

Min(a, b) == IF a <= b THEN a ELSE b
Max(a, b) == IF a >= b THEN a ELSE b

\* NextInterval line 56 mutated: the value is not clamped
ClampMissing(lo, hi, x) == x

\* NextInterval line 56: math.Max(pg.minTime, math.Min(pg.maxTime, x))
Clamp(lo, hi, x) == Max(lo, Min(hi, x))

\* NextInterval line 58: time.Duration(x * float64(time.Second)), the
\* conversion of a float to int64 drops the fraction (towards zero)
ToDuration(x) == IF x >= 0 THEN x \div SubNs ELSE 0 - ((0 - x) \div SubNs)

\* a Duration as a float, in the units of minTime and maxTime
FromDuration(d) == d * SubNs

\* +Inf: above every finite value of the model
PosInf == 10 * Second * SubNs + MaxTime + MaxRaw + 1

\* NextInterval line 54: -math.Log(1.0-u) / pg.lambda for raw = -ln(1-u) >= 0
\* and (raw, lambda) # (0, 0); a positive value over 0 is +Inf
Quotient(raw, lambda) ==
    IF lambda > 0 THEN raw \div lambda
    ELSE IF lambda < 0 THEN 0 - (raw \div (0 - lambda))
    ELSE PosInf

\* math.MinInt64, scaled
MinDuration == 0 - PosInf

\* NextInterval lines 54-58 for raw = 0 and lambda = 0: x is NaN, math.Min
\* and math.Max return NaN, and the conversion of NaN to int64 is
\* implementation-dependent (the smallest int64 on amd64, 0 on arm64)
NaNToDuration == {MinDuration, 0}

\* NextInterval lines 54-58: the Durations the call can return for a draw
Intervals(raw) ==
    IF raw = 0 /\ pg.lambda = 0
      THEN NaNToDuration
      ELSE {ToDuration(Clamp(pg.minTime, pg.maxTime, Quotient(raw, pg.lambda)))}

SetCaller(c, r) == [caller EXCEPT ![c] = r]

\* a goroutine calls NextInterval
CallNextInterval(c) ==
    /\ caller[c].pc = "idle"
    /\ caller' = SetCaller(c, [caller[c] EXCEPT !.pc = "ni_lock",
                                                !.op = "NextInterval", !.ret = 0, !.retTimes = <<>>])
    /\ UNCHANGED <<pg, nonPgVars>>

\* NextInterval line 50: pg.mu.Lock(); sync.Mutex is not reentrant, the
\* call waits also when the caller itself holds pg.mu
NI_Lock(c) ==
    /\ caller[c].pc = "ni_lock"
    /\ pg.mu = 0
    /\ pg' = [pg EXCEPT !.mu = c]
    /\ caller' = SetCaller(c, [caller[c] EXCEPT !.pc = "ni_draw"])
    /\ UNCHANGED nonPgVars

\* NextInterval lines 53-58 and the deferred Unlock; raw is -ln(1-u) for the
\* draw u in [0,1).  Called from GenerateEventTimes (lines 88-92) the value
\* is added to currentTime and the sum recorded if it is inside the window.
NI_Return(c) ==
    /\ caller[c].pc = "ni_draw"
    /\ \E raw \in Raws : \E d \in Intervals(raw) :
         LET now == caller[c].currentTime + d
         IN  IF caller[c].op = "NextInterval"
               THEN caller' = SetCaller(c, [caller[c] EXCEPT !.pc = "idle", !.ret = d])
               ELSE caller' = SetCaller(c,
                        [caller[c] EXCEPT !.pc = "get_loop",
                                          !.currentTime = now,
                                          !.times = IF now < caller[c].window
                                                      THEN Append(@, now) ELSE @])
    /\ pg' = [pg EXCEPT !.mu = 0]
    /\ UNCHANGED nonPgVars

\* a goroutine calls GenerateEventTimes(window)
CallGenerateEventTimes(c) ==
    /\ caller[c].pc = "idle"
    /\ \E w \in Windows :
         caller' = SetCaller(c, [caller[c] EXCEPT !.pc = "get_lock",
                                                  !.op = "GenerateEventTimes", !.ret = 0, !.retTimes = <<>>,
                                                  !.window = w])
    /\ UNCHANGED <<pg, nonPgVars>>

\* GenerateEventTimes lines 81-85
GET_Lock(c) ==
    /\ caller[c].pc = "get_lock"
    /\ pg.mu = 0
    /\ pg' = [pg EXCEPT !.mu = c]
    /\ caller' = SetCaller(c, [caller[c] EXCEPT !.pc = "get_loop",
                                                !.currentTime = 0,
                                                !.times = <<>>])
    /\ UNCHANGED nonPgVars

\* GenerateEventTimes line 87: the loop test; line 88 calls NextInterval
\* with pg.mu held, line 95 returns and the deferred Unlock runs
GET_Loop(c) ==
    /\ caller[c].pc = "get_loop"
    /\ IF caller[c].currentTime < caller[c].window
         THEN /\ caller' = SetCaller(c, [caller[c] EXCEPT !.pc = "ni_lock"])
              /\ UNCHANGED pg
         ELSE /\ caller' = SetCaller(c, [caller[c] EXCEPT !.pc = "idle",
                                                          !.retTimes = caller[c].times])
              /\ pg' = [pg EXCEPT !.mu = 0]
    /\ UNCHANGED nonPgVars

\* SetLambda lines 98-102 (pg.mu is held for the whole body)
SetLambda(c) ==
    /\ caller[c].pc = "idle"
    /\ pg.mu = 0
    /\ \E lambda \in Lambdas : pg' = [pg EXCEPT !.lambda = lambda]
    /\ UNCHANGED <<caller, nonPgVars>>

\* SetTimeConstraints lines 104-109 (pg.mu is held for the whole body);
\* the arguments are stored as given
SetTimeConstraints(c) ==
    /\ caller[c].pc = "idle"
    /\ pg.mu = 0
    /\ \E minTime \in Times, maxTime \in Times :
         pg' = [pg EXCEPT !.minTime = minTime, !.maxTime = maxTime]
    /\ UNCHANGED <<caller, nonPgVars>>

\* the uniform draws rng.Float64() in [0,1), in units of 1/Precision
Draws == 0..(Precision - 1)

RECURSIVE Pow2(_)
Pow2(n) == IF n <= 0 THEN 1 ELSE 2 * Pow2(n - 1)

\* NextEvents lines 65-67: math.Exp(-adjustedLambda) for adjustedLambda =
\* pg.lambda * duration.Seconds(), rounded down to the precision; the model's
\* exponential halves per unit of lambda * window
ExpNeg(a) == IF a >= 0 THEN Precision \div Pow2(a) ELSE Precision * Pow2(0 - a)

\* NextEvents line 73: p * rng.Float64()
Mul(p, u) == (p * u) \div Precision

\* a goroutine calls NextEvents(window) with a non-negative window
CallNextEvents(c) ==
    /\ caller[c].pc = "idle"
    /\ \E w \in Windows :
         caller' = SetCaller(c, [caller[c] EXCEPT !.pc = "ne_lock",
                                                  !.op = "NextEvents", !.ret = 0, !.retTimes = <<>>,
                                                  !.window = w])
    /\ UNCHANGED <<pg, nonPgVars>>

\* NextEvents lines 62-69
NE_Lock(c) ==
    /\ caller[c].pc = "ne_lock"
    /\ pg.mu = 0
    /\ pg' = [pg EXCEPT !.mu = c]
    /\ caller' = SetCaller(c, [caller[c] EXCEPT !.pc = "ne_loop",
                                                !.L = ExpNeg(pg.lambda * caller[c].window),
                                                !.k = 0,
                                                !.p = Precision])
    /\ UNCHANGED nonPgVars

\* NextEvents lines 71-77, one iteration; on return the deferred Unlock
NE_Loop(c) ==
    /\ caller[c].pc = "ne_loop"
    /\ caller[c].k < MaxK
    /\ \E u \in Draws :
         LET k == caller[c].k + 1
             p == Mul(caller[c].p, u)
         IN  IF p < caller[c].L
               THEN /\ caller' = SetCaller(c, [caller[c] EXCEPT !.pc = "idle",
                                                                !.ret = k - 1,
                                                                !.window = 0,
                                                                !.k = 0, !.p = 0, !.L = 0])
                    /\ pg' = [pg EXCEPT !.mu = 0]
               ELSE /\ caller' = SetCaller(c, [caller[c] EXCEPT !.k = k, !.p = p])
                    /\ UNCHANGED pg
    /\ UNCHANGED nonPgVars

NextIntervalCall == \E c \in PgCallers : CallNextInterval(c)
NextEventsCall == \E c \in PgCallers : CallNextEvents(c)
NextEventsLock == \E c \in PgCallers : NE_Lock(c)
NextEventsLoop == \E c \in PgCallers : NE_Loop(c)
NextIntervalLock == \E c \in PgCallers : NI_Lock(c)
NextIntervalReturn == \E c \in PgCallers : NI_Return(c)
GenerateEventTimesCall == \E c \in PgCallers : CallGenerateEventTimes(c)
GenerateEventTimesLock == \E c \in PgCallers : GET_Lock(c)
GenerateEventTimesLoop == \E c \in PgCallers : GET_Loop(c)
SetLambdaCall == \E c \in PgCallers : SetLambda(c)
SetTimeConstraintsCall == \E c \in PgCallers : SetTimeConstraints(c)

PoissonNext ==
    \/ NextIntervalCall
    \/ NextIntervalLock
    \/ NextIntervalReturn
    \/ NextEventsCall
    \/ NextEventsLock
    \/ NextEventsLoop
    \/ GenerateEventTimesCall
    \/ GenerateEventTimesLock
    \/ GenerateEventTimesLoop
    \/ SetLambdaCall
    \/ SetTimeConstraintsCall

\* a generator built from the default configuration; the pool beside it is
\* not used
PoissonInit == Init /\ Capacity = MaxCapacity

PoissonSpec == PoissonInit /\ [][PoissonNext]_vars

(***************************************************************************)
(* Sanity of the model itself.                                             *)
(***************************************************************************)
TypeOK ==
    /\ mu \in Tasks \cup {NoTask}
    /\ gateSem \in Tasks \cup {NoTask}
    /\ Capacity \in 1..MaxCapacity
    /\ spaceSem \in 0..Capacity
    /\ vehicles \subseteq Vehicles
    /\ occupiedSpaces \in Int
    /\ state \in [Vehicles -> {Waiting, Entering, Parked, Exiting}]
    /\ wg \in Nat
    /\ Len(queue) <= MaxQueueSize
    /\ vehicleCount \in 0..NumVehicles

\* Exit always finds a goroutine slot for its retry
SlotsSuffice ==
    \A t \in Tasks : frame[t].pc = "ex_queue" /\ Len(waitingQueue) > 0
                        => \E k \in RetrySlots : frame[RT(k)].pc = "idle"

\* the drain loop never starts a second task for a vehicle whose task still runs
OneTaskPerVehicle == drpc = "spawn" => frame[PV(drv)].pc = "idle"

(***************************************************************************)
(* Helpers of the properties.                                              *)
(***************************************************************************)
RECURSIVE SumOver(_, _)
SumOver(f, S) ==
    IF S = {} THEN 0
    ELSE LET x == CHOOSE y \in S : TRUE IN f[x] + SumOver(f, S \ {x})

\* a goroutine started by Exit is still running TryEnter(v)
RetryRunning(v) == \E k \in RetrySlots : frame[RT(k)].pc # "idle" /\ frame[RT(k)].v = v

\* no goroutine of the run is left: runSimulation and processQueue returned,
\* every processVehicle and every retry finished
AllFinished ==
    /\ genpc = "done"
    /\ drpc = "done"
    /\ \A t \in PVTasks \cup RTTasks : frame[t].pc = "idle"

(***************************************************************************)
(* C1  Capacity invariant: under any interleaving of concurrent TryEnter   *)
(* and Exit calls, retries started by Exit included, occupiedSpaces stays  *)
(* between 0 and Capacity.                                                 *)
(***************************************************************************)
C1_CapacityInvariant == 0 <= occupiedSpaces /\ occupiedSpaces <= Capacity

\* a retry started by Exit has just filled the lot again
C1_Witness ==
    /\ occupiedSpaces = Capacity
    /\ \E k \in RetrySlots : frame[RT(k)].pc = "te_release"
    /\ \E v \in Vehicles : nOut[v] > 0

(***************************************************************************)
(* C2  Once Stop() has been called it eventually returns: there is no      *)
(* state in which Stop waits in wg.Wait and no goroutine can take a step.  *)
(***************************************************************************)
C2_StopReturns == stoppc = "wait" => ENABLED Next

(***************************************************************************)
(* C3  Quiescence on stop: when Stop() has returned, the generation loop,  *)
(* the drain loop, every per-vehicle task and every retry started by Exit  *)
(* have finished.                                                          *)
(***************************************************************************)
C3_QuiescentOnStop == stoppc = "returned" => AllFinished

(***************************************************************************)
(* C4  After Stop() has returned neither UpdateUI nor onQueueUpdate is     *)
(* invoked again.                                                          *)
(***************************************************************************)
C4_NoNotificationAfterStop ==
    [][stoppc = "returned" =>
          /\ nIn' = nIn
          /\ nOut' = nOut
          /\ lastNote' = lastNote
          /\ qNotes' = qNotes]_vars

(***************************************************************************)
(* C5  The capacity-2 scenario: after TryEnter(1), TryEnter(2) (admitted,  *)
(* occupancy 2, available 0) and TryEnter(3) (rejected, waiting queue      *)
(* <<3>>), Exit(1) brings occupancy to 1 with a departure notification     *)
(* carrying available = 1 and takes 3 off the waiting queue, and when the  *)
(* run has come to rest vehicle 3 is admitted and occupancy is 2 again.    *)
(***************************************************************************)
C5_ScenarioSetUp ==
    scn = 3 /\ ClientsIdle =>
        /\ vehicles = {1, 2}
        /\ occupiedSpaces = 2
        /\ lastNote.spaces = 0
        /\ waitingQueue = <<3>>

C5_ScenarioExit ==
    scn = 4 /\ (\E c \in Clients : frame[CL(c)].pc = "ex_relock") =>
        /\ nOut[1] = 1
        /\ waitingQueue = <<>>
        /\ lastNote.kind = "in" \/ lastNote = [kind |-> "out", v |-> 1, spaces |-> 1, gate |-> TRUE]

\* a step of a call of TryEnter or Exit that is under way
PoolRun ==
    \/ TryEnterLock
    \/ TryEnterGate
    \/ TryEnterRelease
    \/ ExitLock
    \/ ExitGate
    \/ ExitQueue
    \/ ExitRelock

C5_Scenario ==
    /\ C5_ScenarioSetUp
    /\ C5_ScenarioExit
    /\ (scn = 4 /\ ~ENABLED PoolRun => 3 \in vehicles /\ occupiedSpaces = 2)

(***************************************************************************)
(* C6  Idempotent exit: however often and however concurrently Exit is     *)
(* called on a vehicle, its departures never outnumber its admissions; a   *)
(* vehicle admitted once has exactly one decrement of occupiedSpaces once  *)
(* it has left the map, and every decrement comes with exactly one         *)
(* release of a space permit.                                              *)
(***************************************************************************)
C6_IdempotentExit ==
    /\ \A v \in Vehicles :
          /\ nOut[v] <= nIn[v]
          /\ nIn[v] = 1 => nOut[v] = (IF v \in vehicles THEN 0 ELSE 1)
    /\ nRel = SumOver(nOut, Vehicles)
    /\ spaceSem >= 0

\* a vehicle admitted once, departed once, and a further Exit on it returned
C6_Witness ==
    \E v \in Vehicles : nIn[v] = 1 /\ nOut[v] = 1 /\ nIgnored[v] >= 1

(***************************************************************************)
(* C7  State-machine monotonicity: every change of a vehicle's state is    *)
(* Waiting -> Entering, Entering -> Parked or Parked -> Exiting, or        *)
(* Waiting/Entering -> Exiting once the run is cancelled.                  *)
(***************************************************************************)
Monotonic(v) ==
    \/ state'[v] = state[v]
    \/ state[v] = Waiting /\ state'[v] = Entering
    \/ state[v] = Entering /\ state'[v] = Parked
    \/ state[v] = Parked /\ state'[v] = Exiting
    \/ state[v] \in {Waiting, Entering} /\ state'[v] = Exiting /\ cancelled

C7_StateMonotonic == [][\A v \in Vehicles : Monotonic(v)]_vars

(***************************************************************************)
(* C8  No vehicle is at the same time in the admitted map and in the       *)
(* pool's waiting queue.                                                   *)
(***************************************************************************)
C8_MapQueueDisjoint == \A v \in Vehicles : ~(v \in vehicles /\ v \in Range(waitingQueue))

(***************************************************************************)
(* C9  Conservation: every vehicle the generation loop created is          *)
(* accounted for at most once among admitted (now or earlier), waiting in  *)
(* a queue, balked; and exactly once when no goroutine has it in hand.     *)
(***************************************************************************)
Accounted(v) ==
    (IF nIn[v] > 0 THEN 1 ELSE 0)
    + Count(waitingQueue, v) + Count(queue, v)
    + (IF v \in balked THEN 1 ELSE 0)

InHand(v) == frame[PV(v)].pc # "idle" \/ RetryRunning(v) \/ drv = v

C9_Conservation ==
    \A v \in Vehicles : v <= vehicleCount =>
        /\ Accounted(v) <= 1
        /\ ~InHand(v) => Accounted(v) = 1

(***************************************************************************)
(* C10  Every admitted vehicle is eventually passed to Exit and removed    *)
(* from the admitted map: when every goroutine of the run has finished,    *)
(* the admitted map is empty.                                              *)
(***************************************************************************)
C10_AdmittedExit == AllFinished => vehicles = {}

(***************************************************************************)
(* C11  Once the context is cancelled no admission is attempted: no        *)
(* TryEnter begins to run and no vehicle is added to the admitted map.     *)
(***************************************************************************)
C11_NoAdmissionAfterCancel ==
    [][cancelled =>
          /\ nIn' = nIn
          /\ \A t \in Tasks : frame[t].pc = "te_lock" => frame'[t].pc = "te_lock"]_vars

(***************************************************************************)
(* C12  Notifications are totally ordered by commit: every UpdateUI call   *)
(* carries Capacity - occupiedSpaces as it is right after the caller's own *)
(* update, is made by the one task that has just taken the free gate, and  *)
(* differs by exactly 1 from the previous call's value; at most one task   *)
(* is between acquiring and releasing the gate.                            *)
(***************************************************************************)
GateSection == {"te_release", "ex_queue", "ex_relock"}

InGate(t) == frame[t].pc \in GateSection

C12_NotificationsOrdered ==
    [][/\ (nIn' # nIn \/ nOut' # nOut) =>
            /\ lastNote'.spaces = Capacity - occupiedSpaces'
            /\ lastNote'.spaces - lastNote.spaces \in {-1, 1}
            /\ gateSem = NoTask
            /\ gateSem' \in Tasks
            /\ frame'[gateSem'].pc \in GateSection
       /\ \A t1, t2 \in Tasks : InGate(t1)' /\ InGate(t2)' => t1 = t2]_vars

\* a TryEnter waits for the gate while an Exit that has notified still holds it
C12_Witness ==
    /\ lastNote.kind = "out"
    /\ \E t1, t2 \in Tasks : frame[t1].pc = "ex_relock" /\ frame[t2].pc = "te_gate"

(***************************************************************************)
(* C13  FIFO draining: with capacity 1 and no TryEnter of a client running *)
(* once the exits have begun, the vehicles admitted from the pool's        *)
(* waiting queue are admitted in the order in which they were queued.      *)
(***************************************************************************)
IsPrefix(s, t) == Len(s) <= Len(t) /\ \A i \in 1..Len(s) : s[i] = t[i]

C13_FifoDraining ==
    Capacity = 1 /\ phase # "late" => IsPrefix(admitLog, queuedLog)

\* two different queued vehicles have been admitted one after the other
C13_Witness ==
    /\ Capacity = 1
    /\ phase = "drain"
    /\ Len(admitLog) >= 2
    /\ admitLog[1] # admitLog[2]

(***************************************************************************)
(* C14  The driver's waiting queue never holds more than MAX_QUEUE_SIZE    *)
(* vehicles.                                                               *)
(***************************************************************************)
C14_QueueBounded == Len(queue) <= MaxQueueSize

\* the queue is full and addToQueue has turned a vehicle away
C14_Witness == Len(queue) = MaxQueueSize /\ balked # {}

(***************************************************************************)
(* C15  onQueueUpdate is invoked, with the new length, after every change  *)
(* of the size of the driver's queue, an append as well as a pop.          *)
(***************************************************************************)
C15_QueueChangeNotified ==
    [][Len(queue') # Len(queue) =>
          /\ qNotes'.n = qNotes.n + 1
          /\ qNotes'.len = Len(queue')]_vars

(***************************************************************************)
(* C16  Whenever the pool lock is free, every vehicle in the admitted map  *)
(* is Entering or Parked.                                                  *)
(***************************************************************************)
C16_AdmittedStates ==
    mu = NoTask => \A v \in vehicles : state[v] \in {Entering, Parked}

\* a vehicle that has departed before is in the map again, the lock is free
C16_Witness ==
    /\ mu = NoTask
    /\ \E v \in vehicles : nOut[v] > 0
    /\ \E v \in Vehicles : state[v] = Exiting

(***************************************************************************)
(* C17  Cancellation ends a wait for the gate: once the run is cancelled   *)
(* and has come to rest, no TryEnter (holding a space permit) and no Exit  *)
(* is still waiting to acquire the gate.                                   *)
(***************************************************************************)
C17_CancelEndsGateWait ==
    cancelled /\ ~ENABLED Next =>
        \A t \in Tasks : frame[t].pc \notin {"te_gate", "ex_gate"}

(***************************************************************************)
(* C18  Balking: when addToQueue turns a vehicle away, the driver's queue  *)
(* is unchanged and no queue-length notification fires; a balked vehicle   *)
(* is held by no queue and is never admitted afterwards.                   *)
(***************************************************************************)
C18_Balking ==
    [][\A v \in Vehicles :
          /\ v \in balked' /\ v \notin balked => queue' = queue /\ qNotes' = qNotes
          /\ v \in balked' => v \notin Range(queue') /\ v \notin Range(waitingQueue')
          /\ v \in balked => nIn'[v] = nIn[v]]_vars

(***************************************************************************)
(* C19  GenerateEventTimes terminates for every window: a call is never    *)
(* left waiting for pg.mu while holding pg.mu itself; the sequence it      *)
(* returns is strictly ascending with every timestamp below the window.    *)
(***************************************************************************)
C19_GenerateEventTimesTerminates ==
    \A c \in PgCallers :
        /\ ~(caller[c].pc = "ni_lock" /\ pg.mu = c)
        /\ caller[c].pc = "idle" /\ caller[c].op = "GenerateEventTimes" =>
              LET ts == caller[c].retTimes
              IN  /\ \A i \in 1..Len(ts) : ts[i] < caller[c].window
                  /\ \A i \in 1..(Len(ts) - 1) : ts[i] < ts[i + 1]

(***************************************************************************)
(* C20  Clamped interval law as stated: with lambda > 0 and                *)
(* minTime <= maxTime, the Duration NextInterval returns lies in           *)
(* [minTime, maxTime].                                                     *)
(***************************************************************************)
NextIntervalReturns(c) == caller[c].pc = "ni_draw" /\ caller'[c].pc = "idle"

NextEventsReturns(c) == caller[c].pc = "ne_loop" /\ caller'[c].pc = "idle"

C21_NextEventsReturns ==
    [][\A c \in PgCallers :
          /\ caller'[c].pc = "ne_loop" =>
                \E u \in Draws : Mul(caller'[c].p, u) < caller'[c].L
          /\ NextEventsReturns(c) =>
                /\ caller'[c].ret >= 0
                /\ caller[c].window = 0 => caller'[c].ret = 0]_vars

(***************************************************************************)
(* C22  Misconfiguration is rejected at configuration time: a generator    *)
(* never holds a non-positive arrival rate.                                *)
(***************************************************************************)
C22_MisconfigurationRejected == pg.lambda > 0

(***************************************************************************)
(* C23  A successful TryEnter(v): one space permit is consumed; then, with *)
(* the gate taken, v is recorded in the admitted map, occupiedSpaces grows *)
(* by exactly 1 and one admission notification carries the new available   *)
(* count; then the gate is released and v is Parked on return.  Nothing    *)
(* else changes the pool while the call is under way.                      *)
(***************************************************************************)
PoolCounts == <<occupiedSpaces, spaceSem, vehicles, nIn, nOut, lastNote>>

C23_TryEnterEffect ==
    [][\A t \in Tasks :
          LET v == frame[t].v
          IN  /\ frame[t].pc = "te_lock" /\ frame'[t].pc = "te_gate" =>
                    /\ spaceSem' = spaceSem + 1
                    /\ mu' = t
                    /\ UNCHANGED <<occupiedSpaces, vehicles, nIn, nOut, lastNote, gateSem>>
              /\ frame[t].pc = "te_gate" /\ frame'[t].pc = "te_release" =>
                    /\ gateSem = NoTask /\ gateSem' = t
                    /\ v \in vehicles'
                    /\ occupiedSpaces' = occupiedSpaces + 1
                    /\ nIn' = [nIn EXCEPT ![v] = @ + 1]
                    /\ lastNote' = [kind |-> "in", v |-> v,
                                    spaces |-> Capacity - (occupiedSpaces + 1),
                                    gate |-> TRUE]
                    /\ UNCHANGED <<spaceSem, nOut, mu>>
              /\ frame[t].pc = "te_release" /\ frame'[t].pc # "te_release" =>
                    /\ gateSem = t /\ gateSem' = NoTask
                    /\ mu = t /\ mu' = NoTask
                    /\ v \in vehicles'
                    /\ state'[v] = Parked
                    /\ UNCHANGED PoolCounts
              /\ frame[t].pc \in {"te_gate", "te_release"} /\ frame'[t] = frame[t] =>
                    UNCHANGED PoolCounts]_vars

\* a first TryEnter has returned true and nothing has happened since
C23_Witness ==
    \E v \in Vehicles :
        /\ vehicles = {v}
        /\ state[v] = Parked
        /\ occupiedSpaces = 1
        /\ spaceSem = 1
        /\ lastNote = [kind |-> "in", v |-> v, spaces |-> Capacity - 1, gate |-> TRUE]
        /\ mu = NoTask
        /\ gateSem = NoTask
        /\ \A t \in Tasks : frame[t].pc = "idle"

(***************************************************************************)
(* C24  TryEnter(v) with occupiedSpaces equal to Capacity returns false    *)
(* and appends v at the tail of the pool's waiting queue; occupiedSpaces,  *)
(* the admitted map, the permits, the gate and v's state are unchanged     *)
(* and no notification is made.                                            *)
(***************************************************************************)
C24_RejectToQueue ==
    [][\A t \in Tasks :
          frame[t].pc = "te_lock" /\ frame'[t] # frame[t]
          /\ occupiedSpaces = Capacity =>
              /\ waitingQueue' = Append(waitingQueue, frame[t].v)
              /\ frame'[t].pc = AfterTryEnter(t, FALSE)
              /\ UNCHANGED <<PoolCounts, gateSem, mu, state>>]_vars

\* two vehicles have been rejected by a full lot
C24_Witness ==
    /\ occupiedSpaces = Capacity
    /\ Len(waitingQueue) >= 2
    /\ waitingQueue[1] # waitingQueue[2]
    /\ \A t \in Tasks : frame[t].pc = "idle"

(***************************************************************************)
(* C25  Exit(v) for a vehicle that is not in the admitted map is a no-op:  *)
(* occupancy, map, waiting queue, permits, gate and states are unchanged,  *)
(* no notification is made and no queued vehicle is retried.               *)
(***************************************************************************)
C25_ExitNoOp ==
    [][\A t \in Tasks :
          frame[t].pc = "ex_lock" /\ frame'[t] # frame[t]
          /\ frame[t].v \notin vehicles =>
              /\ frame'[t].pc = AfterExit(t)
              /\ \A u \in Tasks \ {t} : frame'[u] = frame[u]
              /\ UNCHANGED <<PoolCounts, gateSem, mu, state, waitingQueue, nRel>>]_vars

\* an Exit of a vehicle that is not in the map has returned while a vehicle
\* was waiting in the pool's queue
C25_Witness ==
    /\ \E v \in Vehicles : nOut[v] > 0 /\ nIgnored[v] > 0 /\ v \notin vehicles
    /\ waitingQueue # <<>>
    /\ \A t \in Tasks : frame[t].pc = "idle"

(***************************************************************************)
(* C26  An effective Exit with a non-empty waiting queue removes exactly   *)
(* its head, keeps the order of the rest and starts exactly one retry      *)
(* TryEnter for the removed head, with the pool lock released; admissions  *)
(* never exceed the freed slots (occupancy stays within the capacity).     *)
(***************************************************************************)
C26_RetryHead ==
    [][/\ \A t \in Tasks :
            frame[t].pc = "ex_queue" /\ frame'[t] # frame[t] /\ waitingQueue # <<>> =>
                /\ waitingQueue' = Tail(waitingQueue)
                /\ mu = t /\ mu' = NoTask
                /\ \E k \in RetrySlots :
                      /\ frame[RT(k)].pc = "idle"
                      /\ frame'[RT(k)] = [pc |-> "te_lock", v |-> Head(waitingQueue)]
                      /\ \A u \in Tasks \ {t, RT(k)} : frame'[u] = frame[u]
       /\ Len(waitingQueue') < Len(waitingQueue) =>
            \E t \in Tasks : frame[t].pc = "ex_queue" /\ frame'[t].pc = "ex_relock"
       /\ occupiedSpaces' <= Capacity]_vars

\* an Exit has popped the head of a queue of two and its retry is starting
C26_Witness ==
    /\ \E t \in Tasks : frame[t].pc = "ex_relock"
    /\ \E k \in RetrySlots : frame[RT(k)].pc = "te_lock"
    /\ waitingQueue # <<>>
    /\ \A i \in 1..Len(waitingQueue) :
          \A k \in RetrySlots : frame[RT(k)].pc = "te_lock" => frame[RT(k)].v # waitingQueue[i]

C28_NoLockOrderInversion ==
    ~ \E t1, t2 \in Tasks :
          /\ gateSem = t1 /\ frame[t1].pc = "ex_relock"
          /\ mu = t2 /\ frame[t2].pc \in {"te_gate", "ex_gate"}

(***************************************************************************)
(* C29  Whenever the pool lock is free, occupiedSpaces equals the number   *)
(* of entries of the admitted map.                                         *)
(***************************************************************************)
C29_OccupancyIsMapSize ==
    mu = NoTask => occupiedSpaces = Cardinality(vehicles)

(***************************************************************************)
(* C30  No vehicle is held more than once across the pool's waiting queue  *)
(* and the driver's queue taken together.                                  *)
(***************************************************************************)
C30_QueuedOnce ==
    \A v \in Vehicles : Count(waitingQueue, v) + Count(queue, v) <= 1

(***************************************************************************)
(* C31  Cancellation is irreversible: after a Start() that follows a       *)
(* Stop() no vehicle is created, the drain loop removes nothing from the   *)
(* queue and no per-vehicle task (hence no admission attempt) is started.  *)
(***************************************************************************)
C31_RestartIsInert ==
    [][started >= 2 =>
          /\ vehicleCount' = vehicleCount
          /\ queue' = queue
          /\ drpc' # "spawn"
          /\ \A v \in Vehicles :
                frame[PV(v)].pc = "idle" => frame'[PV(v)].pc = "idle"]_vars

(***************************************************************************)
(* C32  Whenever the pool lock is free, the number of space permits taken  *)
(* from spaceSem equals occupiedSpaces; so TryAcquire cannot fail when     *)
(* occupiedSpaces < Capacity (the second rejection path of TryEnter is     *)
(* unreachable).                                                           *)
(***************************************************************************)
C32_PermitsMatchOccupancy ==
    mu = NoTask =>
        /\ spaceSem = occupiedSpaces
        /\ ~LotFull => TryAcquire

\* an Exit has given its permit back and is in the window in which it has
\* released the pool lock; a space is free
C32_Witness ==
    /\ mu = NoTask
    /\ \E t \in Tasks : frame[t].pc = "ex_relock"
    /\ nRel > 0
    /\ spaceSem > 0
    /\ spaceSem < Capacity

====
